---- MODULE Spec2Model ----
(***************************************************************************)
(* Influencer search: criteria resolution (manual parsing, AI extraction   *)
(* with a cache, merge), the catalog filter/sort, and the result           *)
(* projection of the /search handler.                                      *)
(*                                                                         *)
(* A text is a sequence of tokens; a token is a run of characters that no  *)
(* keyword of the program straddles (a phrase token such as "under "       *)
(* carries its trailing blank).  A dict is a total function over Keys      *)
(* whose missing keys hold Absent.  Engagement is counted in tenths of a   *)
(* percent, so every number of the model is an integer.                    *)
(***************************************************************************)
EXTENDS Integers, Sequences, FiniteSets, TLC

VARIABLES df, cache, pc, prompt, limit, manual_criteria, ai_criteria,
          ai_failed, criteria, searched, results, filters_applied,
          influencers, status

vars == <<df, cache, pc, prompt, limit, manual_criteria, ai_criteria,
          ai_failed, criteria, searched, results, filters_applied,
          influencers, status>>

(***************************** bounds **************************************)
MaxTextLen == 5
MaxFields == 2
MaxCatalog == 3
MaxCache == 1

(************************ program constants ********************************)
AgeFloor == 18
AgeCeiling == 65
MinLimit == 1
MaxLimit == 20

Max(a, b) == IF a >= b THEN a ELSE b
Min(a, b) == IF a <= b THEN a ELSE b

(*************************** dict values ***********************************)
Absent == [absent |-> TRUE]
Str(s) == [s |-> s]
Num(n) == [n |-> n]
List(l) == [l |-> l]

IsStr(v) == DOMAIN v = {"s"}
IsNum(v) == DOMAIN v = {"n"}

Keys == {"category", "content_type", "platform", "min_followers",
         "max_followers", "min_engagement", "max_budget", "age_range",
         "gender"}

EmptyDict == [k \in Keys |-> Absent]
Has(d, k) == d[k] # Absent
KeysOf(d) == {k \in Keys : Has(d, k)}

(************************** canonical tables *******************************)
platform_map ==
  << <<"instagram", "ig">>, <<"youtube", "yt">>, <<"facebook", "fb">>,
     <<"tiktok", "tiktok">>, <<"ig", "ig">>, <<"insta", "ig">>,
     <<"yt", "yt">>, <<"fb", "fb">> >>

category_map ==
  << <<"fitness", "fitness">>, <<"fit", "fitness">>, <<"workout", "fitness">>,
     <<"gym", "fitness">>, <<"exercise", "fitness">>,
     <<"tech", "tech">>, <<"technology", "tech">>, <<"gadgets", "tech">>,
     <<"fashion", "fashion">>, <<"style", "fashion">>, <<"clothing", "fashion">>,
     <<"food", "food">>, <<"cooking", "food">>, <<"cuisine", "food">>,
     <<"recipe", "food">>,
     <<"travel", "travel">>, <<"tourism", "travel">>, <<"adventure", "travel">> >>

gender_keywords ==
  << <<"female", <<"female", "woman", "women", "girl", "she", "her">> >>,
     <<"male", <<"male", "man", "men", "boy", "he", "him">> >> >>

\* dict.get(key, default) on a table of <<key, value>> pairs
MapGet(table, key, default) ==
  IF \E i \in 1..Len(table) : table[i][1] = key
  THEN table[CHOOSE i \in 1..Len(table) : table[i][1] = key][2]
  ELSE default

(****************************** text ***************************************)
\* str.lower() of one token
LowerTok(t) ==
  CASE t = "Female" -> "female"
    [] t = "Instagram" -> "instagram"
    [] t = "Teen" -> "teen"
    [] t = "Affordable" -> "affordable"
    [] t = "Under " -> "under "
    [] OTHER -> t

Lower(text) == [i \in 1..Len(text) |-> LowerTok(text[i])]

\* str.lower() of a criteria string
LowerStr(s) ==
  CASE s = "Instagram" -> "instagram"
    [] s = "YouTube" -> "youtube"
    [] s = "IG" -> "ig"
    [] s = "Tech" -> "tech"
    [] s = "Snapchat" -> "snapchat"
    [] OTHER -> s

IsSpace(t) == t = " "
IsDigit(t) == t \in {"0", "1", "2", "3", "4", "5", "6", "7", "8", "9"}

\* a phrase token without its trailing blank
RStripTok(t) ==
  CASE t = "under " -> "under"
    [] t = "over " -> "over"
    [] t = "below " -> "below"
    [] t = "above " -> "above"
    [] OTHER -> t

\* str.strip()
Strip(text) ==
  LET inner == {i \in 1..Len(text) : ~IsSpace(text[i])}
  IN  IF inner = {} THEN <<>>
      ELSE LET a == CHOOSE i \in inner : \A j \in inner : i <= j
               b == CHOOSE i \in inner : \A j \in inner : j <= i
           IN  [i \in 1..(b - a + 1) |->
                  IF i = b - a + 1 THEN RStripTok(text[b]) ELSE text[a + i - 1]]

\* the keywords of the three tables that occur inside a token
Subs(t) ==
  CASE t = "female" -> {"female", "male"}
    [] t = "women" -> {"women", "men"}
    [] t = "the" -> {"he"}
    [] t = "fitness" -> {"fitness", "fit"}
    [] t = "tech" -> {"tech"}
    [] t = "travel" -> {"travel"}
    [] t = "instagram" -> {"instagram", "insta"}
    [] t = "youtubers" -> {"youtube"}
    [] t = "high" -> {"ig"}
    [] OTHER -> {}

DigitVal(t) ==
  CASE t = "0" -> 0 [] t = "1" -> 1 [] t = "2" -> 2 [] t = "3" -> 3
    [] t = "4" -> 4 [] t = "5" -> 5 [] t = "6" -> 6 [] t = "7" -> 7
    [] t = "8" -> 8 [] t = "9" -> 9

\* the end of the longest run of tokens from i on that satisfy P; i-1 if none
RECURSIVE RunEnd(_, _, _)
RunEnd(text, i, digits) ==
  IF i <= Len(text) /\ (IF digits THEN IsDigit(text[i]) ELSE IsSpace(text[i]))
  THEN RunEnd(text, i + 1, digits)
  ELSE i - 1

\* int() of the digit run text[i..j]
RECURSIVE IntOf(_, _, _)
IntOf(text, i, j) ==
  IF j < i THEN 0 ELSE 10 * IntOf(text, i, j - 1) + DigitVal(text[j])

NoMatch == [alt |-> 0]

\* regex alternatives "under (\d+)", "over (\d+)", "below (\d+)", "above (\d+)"
\* tried at position i
MatchPhrase(text, i, word, alt) ==
  LET e == RunEnd(text, i + 1, TRUE)
  IN  IF text[i] = word /\ e >= i + 1
      THEN [alt |-> alt, a |-> IntOf(text, i + 1, e), b |-> 0]
      ELSE NoMatch

\* regex alternatives "(\d+)\s*-\s*(\d+)" and "(\d+)\s*to\s*(\d+)" at position i
MatchRange(text, i, sep, alt) ==
  LET e1 == RunEnd(text, i, TRUE)
      s1 == RunEnd(text, e1 + 1, FALSE)
      s2 == RunEnd(text, s1 + 2, FALSE)
      e2 == RunEnd(text, s2 + 1, TRUE)
  IN  IF e1 >= i /\ s1 + 1 <= Len(text) /\ text[s1 + 1] = sep /\ e2 >= s2 + 1
      THEN [alt |-> alt, a |-> IntOf(text, i, e1), b |-> IntOf(text, s2 + 1, e2)]
      ELSE NoMatch

\* alternative k of age_pattern, tried at position i
Alternative(text, i, k) ==
  CASE k = 1 -> MatchPhrase(text, i, "under ", 1)
    [] k = 2 -> MatchPhrase(text, i, "over ", 2)
    [] k = 3 -> MatchRange(text, i, "-", 3)
    [] k = 4 -> MatchRange(text, i, "to", 4)
    [] k = 5 -> MatchPhrase(text, i, "below ", 5)
    [] k = 6 -> MatchPhrase(text, i, "above ", 6)

\* the alternatives from k on in their order, at one position
RECURSIVE MatchAt(_, _, _)
MatchAt(text, i, k) ==
  IF k > 6 THEN NoMatch
  ELSE IF Alternative(text, i, k) # NoMatch THEN Alternative(text, i, k)
  ELSE MatchAt(text, i, k + 1)

\* re.search(age_pattern, text) from position i on: the match at the leftmost
\* position that has one
RECURSIVE AgeSearch(_, _)
AgeSearch(text, i) ==
  IF i > Len(text) THEN NoMatch
  ELSE IF MatchAt(text, i, 1) # NoMatch THEN MatchAt(text, i, 1)
  ELSE AgeSearch(text, i + 1)

\* the if/elif chain on the match's groups
\* the chain with the open end on the wrong side
AgeRangeOfSwapped(m) ==
  CASE m.alt \in {1, 5} -> <<m.a, AgeCeiling>>
    [] m.alt \in {2, 6} -> <<AgeFloor, m.a>>
    [] OTHER -> <<m.a, m.b>>

AgeRangeOf(m) ==
  CASE m.alt \in {1, 5} -> <<AgeFloor, m.a>>
    [] m.alt \in {2, 6} -> <<m.a, AgeCeiling>>
    [] OTHER -> <<m.a, m.b>>

\* the keywords that occur in the text
Found(text) == UNION {Subs(text[i]) : i \in 1..Len(text)}

\* the first entry, in table order, whose key occurs in the text
RECURSIVE FirstIn(_, _, _)
FirstIn(table, found, i) ==
  IF i > Len(table) THEN Absent
  ELSE IF table[i][1] \in found THEN Str(table[i][2])
  ELSE FirstIn(table, found, i + 1)

\* the first gender, in table order, one of whose keywords occurs in the text
RECURSIVE GenderOf(_, _)
GenderOf(found, g) ==
  IF g > Len(gender_keywords) THEN Absent
  ELSE IF \E k \in 1..Len(gender_keywords[g][2]) : gender_keywords[g][2][k] \in found
  THEN Str(gender_keywords[g][1])
  ELSE GenderOf(found, g + 1)

AgeCriterion(m) == IF m = NoMatch THEN Absent ELSE List(AgeRangeOf(m))

ManualDict(found, m) ==
  [EmptyDict EXCEPT !["gender"] = GenderOf(found, 1),
                    !["age_range"] = AgeCriterion(m),
                    !["platform"] = FirstIn(platform_map, found, 1),
                    !["category"] = FirstIn(category_map, found, 1)]

manual_criteria_parsing(user_input) ==
  ManualDict(Found(Lower(user_input)), AgeSearch(Lower(user_input), 1))

(************************** AI extraction **********************************)
\* the text of a model response after re.sub(r'```json|```', '', text).strip()
Unfence(resp) == resp.body

CacheHas(c, key) == \E e \in c : e[1] = key
CacheGet(c, key) == (CHOOSE e \in c : e[1] = key)[2]

\* TTLCache.__setitem__: the caches that can result; a full cache drops an
\* entry (whichever is the oldest) to make room
CacheStore(c, key, value) ==
  IF Cardinality(c) < MaxCache THEN {c \cup {<<key, value>>}}
  ELSE {(c \ {victim}) \cup {<<key, value>>} : victim \in c}

cache_key(user_input) == Strip(Lower(user_input))

Outcome(d, c, failed) == [criteria |-> d, cache |-> c, failed |-> failed]

\* json.loads(json_str) if json_str and json_str != "{}" else {}
Loaded(body) == IF body.t = "json" THEN body.d ELSE EmptyDict

\* extract_criteria with the cache store reached from the except branch too
extract_criteria_caching_failures(c, user_input, resp) ==
  IF CacheHas(c, cache_key(user_input))
  THEN {Outcome(CacheGet(c, cache_key(user_input)), c, FALSE)}
  ELSE IF resp.kind = "raise" \/ Unfence(resp).t = "garbage"
  THEN {Outcome(EmptyDict, c2, TRUE) :
          c2 \in CacheStore(c, cache_key(user_input), EmptyDict)}
  ELSE {Outcome(Loaded(Unfence(resp)), c2, FALSE) :
          c2 \in CacheStore(c, cache_key(user_input), Loaded(Unfence(resp)))}

\* GeminiService.extract_criteria: the outcomes it can have, each the returned
\* dict, the cache afterwards, and whether the except branch ran
extract_criteria(c, user_input, resp) ==
  IF CacheHas(c, cache_key(user_input))
  THEN {Outcome(CacheGet(c, cache_key(user_input)), c, FALSE)}
  ELSE IF resp.kind = "raise" \/ Unfence(resp).t = "garbage"
  THEN {Outcome(EmptyDict, c, TRUE)}
  ELSE {Outcome(Loaded(Unfence(resp)), c2, FALSE) :
          c2 \in CacheStore(c, cache_key(user_input), Loaded(Unfence(resp)))}

(****************************** merge **************************************)
\* {**manual_criteria, **ai_criteria}
MergeAiWins(ai, manual) ==
  [k \in Keys |-> IF Has(ai, k) THEN ai[k] ELSE manual[k]]

\* {**ai_criteria, **manual_criteria}
Merge(ai, manual) ==
  [k \in Keys |-> IF Has(manual, k) THEN manual[k] ELSE ai[k]]

(****************************** search *************************************)
\* the strings float() accepts, with their value (engagement in tenths)
NumericStrings == {"4.0"}
StrValue(s) == CASE s = "4.0" -> 40

\* float(v) raises
FloatRaises(v) == ~IsNum(v) /\ ~(IsStr(v) /\ v.s \in NumericStrings)

\* int(v) raises on a str that is no integer literal, and the format specs
\* ":," and ":,.2f" of the report raise on every str
FormatRaises(v) == ~IsNum(v)

\* the number compared with the column
ConvValue(v) == IF IsNum(v) THEN v.n ELSE StrValue(v.s)

\* an exception leaves search
SearchRaises(c) ==
  \/ Has(c, "min_followers") /\ FormatRaises(c["min_followers"])
  \/ Has(c, "max_followers") /\ FormatRaises(c["max_followers"])
  \/ Has(c, "min_engagement") /\ FloatRaises(c["min_engagement"])
  \/ Has(c, "max_budget") /\ FormatRaises(c["max_budget"])

\* the requested bounds, not clamped
ClampAgeRaw(r) == <<r[1], r[2]>>

\* min_age = max(18, min_age); max_age = min(65, max_age)
ClampAge(r) == <<Max(AgeFloor, r[1]), Min(AgeCeiling, r[2])>>

AgeOk(rec, lo, hi) == rec.age >= lo /\ rec.age <= hi

\* the budget mask with < for <=
BudgetOkStrict(rec, v) == rec.rates_for_charging_inr < v

BudgetOk(rec, v) == rec.rates_for_charging_inr <= v

\* self.platform_map.get(criteria['platform'].lower(), criteria['platform'])
PlatformCode(raw) == MapGet(platform_map, LowerStr(raw), raw)

AgeApplies(c) == Has(c, "age_range") /\ Len(c["age_range"].l) = 2

\* the conjunction of the boolean masks search applies
Keeps(c, rec) ==
  /\ Has(c, "category") => rec.category = c["category"].s
  /\ Has(c, "platform") => rec.platform = PlatformCode(c["platform"].s)
  /\ Has(c, "gender") => rec.gender = c["gender"].s
  /\ AgeApplies(c) =>
       AgeOk(rec, ClampAge(c["age_range"].l)[1], ClampAge(c["age_range"].l)[2])
  /\ Has(c, "min_followers") =>
       rec.total_followers >= ConvValue(c["min_followers"])
  /\ Has(c, "max_followers") =>
       rec.total_followers <= ConvValue(c["max_followers"])
  /\ Has(c, "min_engagement") =>
       rec.overall_engagement >= ConvValue(c["min_engagement"])
  /\ Has(c, "max_budget") => BudgetOk(rec, ConvValue(c["max_budget"]))

Entry(on, e) == IF on THEN <<e>> ELSE <<>>

\* applied_filters, in the order search appends to it
Report(c) ==
  Entry(Has(c, "category"), [f |-> "category", v |-> c["category"]])
  \o Entry(Has(c, "platform"),
           [f |-> "platform",
            v |-> IF Has(c, "platform") THEN Str(PlatformCode(c["platform"].s))
                  ELSE Absent])
  \o Entry(Has(c, "gender"), [f |-> "gender", v |-> c["gender"]])
  \o Entry(AgeApplies(c),
           IF AgeApplies(c)
           THEN [f |-> "age", lo |-> ClampAge(c["age_range"].l)[1],
                 hi |-> ClampAge(c["age_range"].l)[2]]
           ELSE Absent)
  \o Entry(Has(c, "min_followers"), [f |-> "min followers", v |-> c["min_followers"]])
  \o Entry(Has(c, "max_followers"), [f |-> "max followers", v |-> c["max_followers"]])
  \o Entry(Has(c, "min_engagement"), [f |-> "min engagement", v |-> c["min_engagement"]])
  \o Entry(Has(c, "max_budget"), [f |-> "max budget", v |-> c["max_budget"]])

\* descending on overall_engagement, then on total_followers
Before(a, b) ==
  \/ a.overall_engagement > b.overall_engagement
  \/ a.overall_engagement = b.overall_engagement
       /\ a.total_followers > b.total_followers

SameKey(a, b) ==
  a.overall_engagement = b.overall_engagement /\ a.total_followers = b.total_followers

\* the place of row i after the sort, rows of equal keys in reverse order
RankTiesReversed(rows, i) ==
  Cardinality({j \in 1..Len(rows) :
                 \/ Before(rows[j], rows[i])
                 \/ SameKey(rows[j], rows[i]) /\ j > i}) + 1

\* the place of row i after the sort: behind the rows of a larger key and
\* behind the rows of an equal key that come before it (a lexsort keeps the
\* rows of equal keys in their order)
Rank(rows, i) ==
  Cardinality({j \in 1..Len(rows) :
                 \/ Before(rows[j], rows[i])
                 \/ SameKey(rows[j], rows[i]) /\ j < i}) + 1

\* results.sort_values(by=['overall_engagement', 'total_followers'],
\* ascending=False)
SortValues(rows) ==
  [p \in 1..Len(rows) |-> rows[CHOOSE i \in 1..Len(rows) : Rank(rows, i) = p]]

\* no report (the function did not return one)
NoReport == [kind |-> "none", filters |-> <<>>]

\* the report "Data not loaded"
DataNotLoaded == [kind |-> "Data not loaded", filters |-> <<>>]

\* ", ".join(applied_filters) if applied_filters else "no filters"
Joined(filters) == [kind |-> "filters", filters |-> filters]

\* InfluencerUtils.search: raised is an exception leaving the function
Search(frame, c) ==
  IF frame = <<>>
  THEN [raised |-> FALSE, results |-> <<>>, report |-> DataNotLoaded]
  ELSE IF SearchRaises(c)
  THEN [raised |-> TRUE, results |-> <<>>, report |-> NoReport]
  ELSE [raised |-> FALSE,
        results |-> SortValues(SelectSeq(frame, LAMBDA rec : Keeps(c, rec))),
        report |-> Joined(Report(c))]

(****************************** format *************************************)
Project(row) ==
  [name |-> row.influencer_name, category |-> row.category,
   content_type |-> row.content_type, platform |-> row.platform,
   followers |-> row.total_followers, engagement |-> row.overall_engagement,
   rate_inr |-> row.rates_for_charging_inr, age |-> row.age,
   gender |-> row.gender,
   contact |-> [email |-> row.email, phone |-> row.phone_number]]

\* head(limit + 1)
HeadOffByOne(rows, n) == SubSeq(rows, 1, Min(n + 1, Len(rows)))

\* DataFrame.head(n)
DfHead(rows, n) == SubSeq(rows, 1, Min(n, Len(rows)))

format_results(rows, lim) ==
  IF rows = <<>> THEN <<>>
  ELSE LET h == DfHead(rows, lim) IN [i \in 1..Len(h) |-> Project(h[i])]

(******************************* data **************************************)
Row(i, name, cat, plat, gen, age, fol, eng, rate) ==
  [row |-> i, influencer_name |-> name, category |-> cat,
   content_type |-> "video", platform |-> plat, gender |-> gen, age |-> age,
   total_followers |-> fol, overall_engagement |-> eng,
   rates_for_charging_inr |-> rate, email |-> "mail", phone_number |-> "phone"]

\* a stand-in for the rows of mock_influencers_100_inr.csv after load_data
Master ==
  << Row(1, "anya", "fitness", "ig", "female", 18, 50000, 40, 7000),
     Row(2, "bo", "fitness", "ig", "female", 65, 50000, 40, 6500),
     Row(3, "cy", "tech", "yt", "male", 17, 200000, 40, 7001),
     Row(4, "di", "tech", "yt", "male", 66, 120000, 55, 20000),
     Row(5, "ed", "travel", "ig", "female", 30, 49999, 39, 5000),
     Row(6, "fay", "tech", "ig", "male", 25, 200001, 55, 7000),
     Row(7, "gus", "tech", "yt", "female", 25, 200001, 55, 12000) >>

\* the frames of at most MaxCatalog consecutive rows, the empty one included
Catalogs ==
  {SubSeq(Master, w[1], w[2]) :
     w \in {x \in (1..Len(Master)) \X (0..Len(Master)) : x[2] - x[1] < MaxCatalog}}

Limits == MinLimit..MaxLimit

AgeTokens == {"under ", "over ", "below ", "above ", "to", "-", " ", "2", "5"}

\* the texts of n tokens
TextsOfLen(n) == [1..n -> AgeTokens]

Prompts ==
  { <<"teen", " ", "1", "8", "-", "2", "2">>,
    <<" ", "Teen", " ", "1", "8", "-", "2", "2", " ">>,
    <<"Affordable", " ", "influencers">>,
    <<"tech", " ", "youtubers", " ", "over ", "7", "0">> }

ExtraTexts ==
  { <<"Female", " ", "fitness", " ", "influencers", " ", "on", " ", "Instagram",
      " ", "under ", "3", "0">>,
    <<"women", " ", "on", " ", "the", " ", "high", " ", "budget">>,
    <<"the", " ", "tech">>,
    <<"x", "above ", "3", "0", "x">>,
    <<"Under ", "2", "5">>,
    <<"1", "8", " ", "to", " ", "2", "2", " ", "under ", "2", "5">>,
    <<"over ", "4", "0", " ", "under ", "2", "5">> }

Dict1(k, v) == [EmptyDict EXCEPT ![k] = v]
Dict2(k1, v1, k2, v2) == [EmptyDict EXCEPT ![k1] = v1, ![k2] = v2]
Dict3(k1, v1, k2, v2, k3, v3) == [EmptyDict EXCEPT ![k1] = v1, ![k2] = v2, ![k3] = v3]

Body(t, d) == [t |-> t, d |-> d]

\* what generate_content can do: raise, or return a text
ModelResponses ==
  { [kind |-> "raise", fence |-> FALSE, body |-> Body("none", EmptyDict)],
    [kind |-> "text", fence |-> FALSE, body |-> Body("garbage", EmptyDict)],
    [kind |-> "text", fence |-> FALSE, body |-> Body("empty", EmptyDict)],
    [kind |-> "text", fence |-> TRUE, body |-> Body("braces", EmptyDict)] }
  \cup
  { [kind |-> "text", fence |-> TRUE, body |-> Body("json", d)] :
      d \in { Dict1("age_range", List(<<13, 19>>)),
              Dict1("max_budget", Num(7000)),
              Dict2("max_budget", Str("cheap"), "category", Str("tech")),
              Dict3("min_followers", Num(50000), "max_followers", Num(200000),
                    "gender", Str("female")) } }

\* the values a criterion of a Criteria may hold
Domain(k) ==
  CASE k = "category" -> {Str("tech"), Str("technology"), Str("Tech"), Str("fitness")}
    [] k = "content_type" -> {Str("video")}
    [] k = "platform" -> {Str("ig"), Str("Instagram"), Str("insta"), Str("yt"),
                          Str("Snapchat")}
    [] k = "gender" -> {Str("female"), Str("male")}
    [] k = "age_range" -> {List(<<10, 70>>), List(<<18, 25>>), List(<<30, 20>>),
                           List(<<25, 65>>), List(<<66, 80>>), List(<<20>>)}
    [] k = "min_followers" -> {Num(50000), Str("many")}
    [] k = "max_followers" -> {Num(200000)}
    [] k = "min_engagement" -> {Num(40), Str("4.0"), Str("high")}
    [] k = "max_budget" -> {Num(7000), Str("cheap")}

Opt(k) == Domain(k) \cup {Absent}

\* the Criteria with at most MaxFields criteria
SearchCriteria ==
  {c \in [category : Opt("category"), content_type : Opt("content_type"),
          platform : Opt("platform"), gender : Opt("gender"),
          age_range : Opt("age_range"), min_followers : Opt("min_followers"),
          max_followers : Opt("max_followers"),
          min_engagement : Opt("min_engagement"), max_budget : Opt("max_budget")] :
     Cardinality(KeysOf(c)) <= MaxFields}

(***************************** actions *************************************)
Idle ==
  /\ pc = "idle" /\ prompt = <<>> /\ limit = 0
  /\ manual_criteria = EmptyDict /\ ai_criteria = EmptyDict /\ ai_failed = FALSE
  /\ criteria = EmptyDict /\ searched = FALSE /\ results = <<>>
  /\ filters_applied = NoReport /\ influencers = <<>> /\ status = 0

\* the module's services after construction: the frame load_data returned
\* (empty when the load failed) and an empty cache
Init == Idle /\ df \in {<<>>, Master} /\ cache = {}

\* POST /search: the whole handler, which runs without suspending
search_influencers(p, lim, resp) ==
  /\ pc = "idle"
  /\ pc' = "done"
  /\ prompt' = p
  /\ limit' = lim
  /\ manual_criteria' = manual_criteria_parsing(p)
  /\ \E ex \in extract_criteria(cache, p, resp) :
       /\ ai_criteria' = ex.criteria
       /\ ai_failed' = ex.failed
       /\ cache' = ex.cache
  /\ criteria' = Merge(ai_criteria', manual_criteria')
  /\ LET s == Search(df, criteria')
     IN  /\ searched' = ~s.raised
         /\ results' = s.results
         /\ filters_applied' = s.report
         /\ status' = IF s.raised THEN 500 ELSE 200
  /\ influencers' = IF searched' THEN format_results(results', lim) ELSE <<>>
  /\ UNCHANGED df

\* the response's "total_matches" and "results_returned"
total_matches == Len(results)
results_returned == Len(influencers)

Request ==
  \E p \in Prompts, lim \in Limits, resp \in ModelResponses :
     search_influencers(p, lim, resp)

\* the response is sent and the request's locals are gone
Respond ==
  /\ pc = "done"
  /\ pc' = "idle" /\ prompt' = <<>> /\ limit' = 0
  /\ manual_criteria' = EmptyDict /\ ai_criteria' = EmptyDict /\ ai_failed' = FALSE
  /\ criteria' = EmptyDict /\ searched' = FALSE /\ results' = <<>>
  /\ filters_applied' = NoReport /\ influencers' = <<>> /\ status' = 0
  /\ UNCHANGED <<df, cache>>

\* an entry of the TTLCache outlives its ttl
Expire ==
  /\ pc = "idle"
  /\ \E e \in cache : cache' = cache \ {e}
  /\ UNCHANGED <<df, pc, prompt, limit, manual_criteria, ai_criteria, ai_failed,
                 criteria, searched, results, filters_applied, influencers, status>>

Next == Request \/ Respond \/ Expire

Spec == Init /\ [][Next]_vars

(* manual_criteria_parsing alone, over every text of at most MaxTextLen tokens *)
InitParse == Idle /\ df = <<>> /\ cache = {}

\* a text arrives
Receive ==
  /\ pc = "idle"
  /\ pc' = "parse"
  /\ \/ \E n \in 0..MaxTextLen : prompt' \in TextsOfLen(n)
     \/ prompt' \in Prompts \cup ExtraTexts
  /\ UNCHANGED <<df, cache, limit, manual_criteria, ai_criteria, ai_failed,
                 criteria, searched, results, filters_applied, influencers, status>>

Parse ==
  /\ pc = "parse"
  /\ pc' = "parsed"
  /\ manual_criteria' = manual_criteria_parsing(prompt)
  /\ UNCHANGED <<df, cache, prompt, limit, ai_criteria, ai_failed, criteria,
                 searched, results, filters_applied, influencers, status>>

NextParse == Receive \/ Parse

SpecParse == InitParse /\ [][NextParse]_vars

(* search alone, over every Criteria of at most MaxFields criteria and every  *)
(* frame of at most MaxCatalog rows                                           *)
InitSearch == Idle /\ df \in Catalogs /\ cache = {}

\* a merged Criteria arrives
Merged ==
  /\ pc = "idle"
  /\ pc' = "search"
  /\ criteria' \in SearchCriteria
  /\ UNCHANGED <<df, cache, prompt, limit, manual_criteria, ai_criteria,
                 ai_failed, searched, results, filters_applied, influencers, status>>

SearchStep ==
  /\ pc = "search"
  /\ LET s == Search(df, criteria)
     IN  /\ pc' = IF s.raised THEN "raised" ELSE "searched"
         /\ searched' = ~s.raised
         /\ results' = s.results
         /\ filters_applied' = s.report
  /\ UNCHANGED <<df, cache, prompt, limit, manual_criteria, ai_criteria,
                 ai_failed, criteria, influencers, status>>

NextSearch == Merged \/ SearchStep

SpecSearch == InitSearch /\ [][NextSearch]_vars

(****************************** claims *************************************)

\* C1: the merged Criteria has exactly the keys of ai union manual; a key of
\* manual holds the manual value (also when ai holds another value for it), and
\* a key of ai alone holds the ai value.
C1_MergeManualWins ==
  pc = "done" =>
    /\ KeysOf(criteria) = KeysOf(ai_criteria) \cup KeysOf(manual_criteria)
    /\ \A k \in KeysOf(manual_criteria) : criteria[k] = manual_criteria[k]
    /\ \A k \in KeysOf(ai_criteria) \ KeysOf(manual_criteria) :
         criteria[k] = ai_criteria[k]

\* a request whose text gives age_range [18,22] while the AI gave [13,19]
C1_Witness ==
  /\ pc = "done"
  /\ ai_criteria["age_range"] = List(<<13, 19>>)
  /\ manual_criteria["age_range"] = List(<<18, 22>>)
  /\ criteria["age_range"] = List(<<18, 22>>)

\* C2: when the AI extraction of a request fails (the model call raises or its
\* text is no JSON), extract_criteria returns the empty dict, the request still
\* runs the search and answers, the merged Criteria is the output of
\* manual_criteria_parsing for the text, and the cache is left as it was.
C2_AiFailureFallsBackToManual ==
  [][(pc = "idle" /\ pc' = "done" /\ ai_failed') =>
       /\ ai_criteria' = EmptyDict
       /\ criteria' = manual_criteria_parsing(prompt')
       /\ searched' /\ status' = 200
       /\ cache' = cache]_vars

\* a request answered from the manual criteria alone after the AI failed
C2_Witness ==
  /\ pc = "done" /\ ai_failed /\ searched
  /\ KeysOf(criteria) # {}
  /\ filters_applied.kind = "filters" /\ filters_applied.filters # <<>>

\* the value a numeric criterion stands for
C3_Number(v) == IF IsNum(v) THEN v.n ELSE StrValue(v.s)

\* the record satisfies every criterion present in the Criteria
C3_Satisfies(rec, c) ==
  /\ Has(c, "category") => rec.category = c["category"].s
  /\ Has(c, "platform") =>
       rec.platform = MapGet(platform_map, LowerStr(c["platform"].s), c["platform"].s)
  /\ Has(c, "gender") => rec.gender = c["gender"].s
  /\ (Has(c, "age_range") /\ Len(c["age_range"].l) = 2) =>
       /\ rec.age >= Max(18, c["age_range"].l[1])
       /\ rec.age <= Min(65, c["age_range"].l[2])
  /\ Has(c, "min_followers") => rec.total_followers >= C3_Number(c["min_followers"])
  /\ Has(c, "max_followers") => rec.total_followers <= C3_Number(c["max_followers"])
  /\ Has(c, "min_engagement") =>
       rec.overall_engagement >= C3_Number(c["min_engagement"])
  /\ Has(c, "max_budget") => rec.rates_for_charging_inr <= C3_Number(c["max_budget"])

\* C3: on a non-empty catalog the records search returns are exactly the
\* catalog records that satisfy every criterion present; an absent criterion
\* excludes none.
C3_ExactFilter ==
  (pc = "searched" /\ df # <<>>) =>
    /\ {results[i] : i \in 1..Len(results)}
         = {df[i] : i \in {j \in 1..Len(df) : C3_Satisfies(df[j], criteria)}}
    /\ Len(results) = Cardinality({j \in 1..Len(df) : C3_Satisfies(df[j], criteria)})

\* only max_budget = 7000: rows at 7000 and below returned, a dearer one not
C3_Witness ==
  /\ pc = "searched"
  /\ KeysOf(criteria) = {"max_budget"} /\ criteria["max_budget"] = Num(7000)
  /\ \E i \in 1..Len(results) : results[i].rates_for_charging_inr = 7000
  /\ \E i \in 1..Len(df) : df[i].rates_for_charging_inr > 7000
  /\ Len(results) = Len(df) - 1

\* C4: the returned sequence is ordered by overall_engagement descending, then
\* total_followers descending, and rows equal on both keep their catalog order.
C4_SortedStable ==
  pc = "searched" =>
    \A i, j \in 1..Len(results) :
      i < j =>
        \/ results[i].overall_engagement > results[j].overall_engagement
        \/ /\ results[i].overall_engagement = results[j].overall_engagement
           /\ results[i].total_followers > results[j].total_followers
        \/ /\ results[i].overall_engagement = results[j].overall_engagement
           /\ results[i].total_followers = results[j].total_followers
           /\ results[i].row < results[j].row

\* two rows equal on both keys returned behind a row the sort moved up
C4_Witness ==
  /\ pc = "searched"
  /\ \E i, j \in 1..Len(results) :
       /\ i < j
       /\ results[i].overall_engagement = results[j].overall_engagement
       /\ results[i].total_followers = results[j].total_followers
  /\ \E i, j \in 1..Len(results) : i < j /\ results[i].row > results[j].row

\* C5: the age range search uses after clamping has min <= max, for every
\* age_range the manual parsing or the AI can supply.
C5_ClampedRangeOrdered ==
  (pc = "done" /\ searched) =>
    \A i \in 1..Len(filters_applied.filters) :
      filters_applied.filters[i].f = "age" =>
        filters_applied.filters[i].lo <= filters_applied.filters[i].hi

\* the tokens of "under 25" start at position i
Under25At(text, i) ==
  /\ i + 2 <= Len(text)
  /\ text[i] = "under " /\ text[i + 1] = "2" /\ text[i + 2] = "5"

\* C6 as stated: every text that contains "under 25" parses to age_range
\* [18, 25], whatever surrounds the phrase.
C6_Under25Anywhere ==
  (pc = "parsed" /\ \E i \in 1..Len(prompt) : Under25At(prompt, i)) =>
    manual_criteria["age_range"] = List(<<18, 25>>)

\* C6 amended: a text parses to age_range [18, 25] when "under 25" (in any
\* letter case) is not followed by a further digit and no age phrasing matches
\* at an earlier position.
C6_Under25Leftmost ==
  (/\ pc = "parsed"
   /\ \E i \in 1..Len(prompt) :
        /\ Under25At(Lower(prompt), i)
        /\ (i + 3 <= Len(prompt) => ~IsDigit(prompt[i + 3]))
        /\ \A j \in 1..(i - 1) : MatchAt(Lower(prompt), j, 1) = NoMatch) =>
    manual_criteria["age_range"] = List(<<18, 25>>)

\* "under 25" behind other text and before more text, parsed to [18, 25]
C6_Witness ==
  /\ pc = "parsed"
  /\ \E i \in 2..Len(prompt) : Under25At(prompt, i) /\ i + 3 <= Len(prompt)
  /\ manual_criteria["age_range"] = List(<<18, 25>>)

NumericKeys == {"min_followers", "max_followers", "min_engagement", "max_budget"}

C7_NonNumeric(c) ==
  {k \in NumericKeys : Has(c, k) /\ ~IsNum(c[k]) /\ ~(IsStr(c[k]) /\ c[k].s \in NumericStrings)}

C7_Without(c, ks) == [k \in Keys |-> IF k \in ks THEN Absent ELSE c[k]]

\* C7: a numeric criterion whose value is not numeric does not abort the
\* query: the field is treated as absent and the other criteria are applied
\* and reported.
C7_BadNumberIgnored ==
  (pc = "done" /\ C7_NonNumeric(criteria) # {}) =>
    /\ status = 200
    /\ results = Search(df, C7_Without(criteria, C7_NonNumeric(criteria))).results
    /\ filters_applied = Search(df, C7_Without(criteria, C7_NonNumeric(criteria))).report

\* C8: search filters on [max(18, a), min(65, b)], both ends included, and the
\* report holds those clamped bounds, not the request's.
C8_ClampedAgeFilter ==
  (pc = "searched" /\ df # <<>> /\ Has(criteria, "age_range")
     /\ Len(criteria["age_range"].l) = 2) =>
    LET lo == Max(18, criteria["age_range"].l[1])
        hi == Min(65, criteria["age_range"].l[2])
        ages == {i \in 1..Len(filters_applied.filters) :
                   filters_applied.filters[i].f = "age"}
    IN  /\ Cardinality(ages) = 1
        /\ \A i \in ages : filters_applied.filters[i] = [f |-> "age", lo |-> lo, hi |-> hi]
        /\ \A i \in 1..Len(results) : results[i].age >= lo /\ results[i].age <= hi
        /\ KeysOf(criteria) = {"age_range"} =>
             {results[i] : i \in 1..Len(results)}
               = {df[i] : i \in {j \in 1..Len(df) : df[j].age >= lo /\ df[j].age <= hi}}

\* the request [10, 70] reported as 18-65, rows aged 18 and 65 kept, a row
\* aged 17 dropped
C8_Witness ==
  /\ pc = "searched"
  /\ criteria["age_range"] = List(<<10, 70>>)
  /\ \E i \in 1..Len(filters_applied.filters) :
       filters_applied.filters[i] = [f |-> "age", lo |-> 18, hi |-> 65]
  /\ \E i \in 1..Len(results) : results[i].age = 18
  /\ \E i \in 1..Len(results) : results[i].age = 65
  /\ \E i \in 1..Len(df) : df[i].age = 17
  /\ \A i \in 1..Len(results) : results[i].age # 17

\* the Criteria with category and platform replaced by their canonical codes
C9_Canonical(c) ==
  [k \in Keys |->
     IF k = "category" /\ Has(c, k)
     THEN Str(MapGet(category_map, LowerStr(c[k].s), c[k].s))
     ELSE IF k = "platform" /\ Has(c, k)
     THEN Str(MapGet(platform_map, LowerStr(c[k].s), c[k].s))
     ELSE c[k]]

\* C9: search normalizes category and platform through the canonicalization
\* tables before comparing, so an alias (or another letter case) selects the
\* records its canonical code selects.
C9_AliasSelectsAsCode ==
  pc = "searched" => results = Search(df, C9_Canonical(criteria)).results

\* C10: the response holds the first min(limit, matches) rows of the ranked
\* sequence in their order; results_returned = min(limit, total_matches) and
\* total_matches counts every match.
C10_HeadOfRanked ==
  (pc = "done" /\ status = 200) =>
    /\ total_matches = Len(results)
    /\ results_returned = Min(limit, total_matches)
    /\ \A i \in 1..results_returned :
         /\ influencers[i].name = results[i].influencer_name
         /\ influencers[i].followers = results[i].total_followers
         /\ influencers[i].engagement = results[i].overall_engagement
         /\ influencers[i].rate_inr = results[i].rates_for_charging_inr

\* limit 5 with more than five matches
C10_Witness ==
  /\ pc = "done" /\ status = 200
  /\ limit = 5 /\ Len(results) > 5 /\ Len(influencers) = 5
====
